---- MODULE Spec2Model ----
(***************************************************************************)
(* The Dispatcher of src/dispatcher.py as a state machine.                *)
(*                                                                         *)
(* State: the Dispatcher's fields (_taxis, _fareBoard, fareAmountConstraint*)
(* and _revenue), plus what one handler call leaves behind for its caller: *)
(* the calls it made on the world, the exception it raised, and the        *)
(* _allocateFare invocations of a clockTick.                               *)
(*                                                                         *)
(* Python dicts keep insertion order; a dict is a sequence of [k, v]       *)
(* records.  Coordinates (x, y) are abstracted to one number; every        *)
(* travel time is kept in units of 1/TDen and every price in units of      *)
(* 1/PriceUnit, so that T / 0.9 is exact.                                  *)
(***************************************************************************)
EXTENDS Integers, Sequences, FiniteSets, TLC

\* ------------------------------------------------------------------ bounds
\* travel times are multiples of 1/TDen
TDen == 10
\* Spec: at most MaxBids entries in one bidder list, MaxCount fares awarded to one
\* taxi, MaxRevenue of revenue
MaxBids == 2
MaxCount == 1
MaxRevenue == 1
\* SpecRegistry: the same bounds on fares, bids and counts
RegFares == 2
RegBids == 1
RegCount == 1
\* SpecAlloc: the same bounds on bids and counts
AllocBids == 2
AllocCount == 2
\* SpecLedger: at most LedgerBids entries in one bidder list, LedgerCount fares
\* awarded to one taxi, LedgerRevenue of revenue
LedgerBids == 2
LedgerCount == 2
LedgerRevenue == 1
\* SpecVeteran: at most VetBids entries in the bidder list, counts of 1 .. VetCount
\* before the fare
VetBids == 2
VetCount == 3
\* SpecLive: at most LiveBids entries in one bidder list; a fare is registered only
\* while every count is below LiveCount
LiveBids == 1
LiveCount == 1
\* SpecCost: the traffic (travel time per unit of distance, scaled by TDen) runs
\* over 0 .. MaxTraffic
MaxTraffic == 26

\* ------------------------------------------------------ program constants
\* range(200) of _costFare
SampleCount == 200
\* the flat price of _costFare
FlatPrice == 150
\* maximumCostAllowed = 10 * timeToDestination
CeilingFactor == 10
\* prices are multiples of 1/PriceUnit: T / 0.9 = 10 * (T * TDen) / PriceUnit
PriceUnit == 9 * TDen

\* ------------------------------------------------------------- the world
\* coordinates; those of MapNodes resolve to a node (getNode), the others to None
Coords == {0, 1, 2, 3, 9}
MapNodes == {0, 1, 2, 9}
None == -1
\* the worlds an event can declare: the dispatcher's own (_parent) and a foreign one
Parent == "world"
Parents == {"world", "elsewhere"}
\* the taxi objects of the world
TaxiPool == {1, 2, 3}
\* call times
Times == {1, 2}

\* world.getNode: a node is identified by its coordinate
GetNode(c) == IF c \in MapNodes THEN c ELSE None

Abs(x) == IF x < 0 THEN -x ELSE x

\* world.travelTime, scaled by TDen: -1 when either node is None, otherwise
\* the distance between the nodes at the world's current traffic
TravelTime(w, a, b) ==
    IF a = None \/ b = None THEN -TDen ELSE Abs(a - b) * w.traffic

\* ------------------------------------------------------------ Python dict
DictKeys(d) == [i \in 1 .. Len(d) |-> d[i].k]
DictHas(d, key) == \E i \in 1 .. Len(d) : d[i].k = key
DictGet(d, key) == d[CHOOSE i \in 1 .. Len(d) : d[i].k = key].v
DictSet(d, key, val) ==
    IF DictHas(d, key)
    THEN [i \in 1 .. Len(d) |-> IF d[i].k = key THEN [k |-> key, v |-> val] ELSE d[i]]
    ELSE Append(d, [k |-> key, v |-> val])
DictDel(d, key) == SelectSeq(d, LAMBDA e : e.k # key)

\* ------------------------------------------------------------------ state
VARIABLES
    taxis,                  \* Dispatcher._taxis: list of taxi objects
    fareBoard,              \* Dispatcher._fareBoard: origin -> destination -> time -> FareEntry
    fareAmountConstraint,   \* Dispatcher.fareAmountConstraint: taxi index -> fares awarded
    revenue,                \* Dispatcher._revenue
    last,                   \* the event handled last and its arguments
    calls,                  \* the calls on the world made by the handler that ran last
    raised,                 \* the exception that handler ended with, or "none"
    allocs                  \* the _allocateFare invocations of that handler

vars == <<taxis, fareBoard, fareAmountConstraint, revenue, last, calls, raised, allocs>>

\* FareEntry.__init__
FareEntry(origin, dest, time) ==
    [origin |-> origin, destination |-> dest, calltime |-> time,
     price |-> 0, taxi |-> -1, bidders |-> <<>>]

\* a world where every taxi waits at node 0 with no plan and nothing moves
NoWorld == [loc |-> [t \in TaxiPool |-> 0], path |-> [t \in TaxiPool |-> <<>>], traffic |-> 0]

\* an event and its arguments; a clockTick carries the traffic it found
Event(op, parent, origin, dest, time, taxi, traffic) ==
    [op |-> op, parent |-> parent, origin |-> origin, destination |-> dest,
     time |-> time, taxi |-> taxi, traffic |-> traffic]

\* F applied to the value of v, computed once whatever the number of times F uses it
Once(v, F(_)) == CHOOSE y \in {F(x) : x \in {v}} : TRUE

\* ---------------------------------------------------------- board access
HasKey(board, o, d, t) ==
    /\ DictHas(board, o)
    /\ DictHas(DictGet(board, o), d)
    /\ DictHas(DictGet(DictGet(board, o), d), t)

Entry(board, o, d, t) == DictGet(DictGet(DictGet(board, o), d), t)

SetEntry(board, o, d, t, e) ==
    DictSet(board, o, DictSet(DictGet(board, o), d,
                              DictSet(DictGet(DictGet(board, o), d), t, e)))

\* every (origin, destination, time) of the board, as a set
BoardKeys(board) ==
    UNION {UNION {{<<board[i].k, board[i].v[j].k, board[i].v[j].v[n].k>> :
                      n \in 1 .. Len(board[i].v[j].v)} :
                  j \in 1 .. Len(board[i].v)} :
           i \in 1 .. Len(board)}

\* list.index and list[i] of Python, indices from 0; list[-1] is the last element
IndexOf(list, x) == (CHOOSE i \in 1 .. Len(list) : list[i] = x) - 1
InList(list, x) == \E i \in 1 .. Len(list) : list[i] = x
ListAt(list, i) == IF i >= 0 THEN list[i + 1] ELSE list[Len(list) + 1 + i]
ListAtOk(list, i) == IF i >= 0 THEN i < Len(list) ELSE -i <= Len(list)

\* Dispatcher.__init__
Init ==
    /\ taxis = <<>>
    /\ fareBoard = <<>>
    /\ fareAmountConstraint = [i \in {} |-> 0]
    /\ revenue = 0
    /\ last = Event("init", Parent, None, None, 0, 0, 0)
    /\ calls = <<>>
    /\ raised = "none"
    /\ allocs = <<>>

\* ------------------------------------------------------- knowledge base
\* addTaxi with insert(0, taxi) for append(taxi)
AddTaxiListFront(list, taxi) == IF InList(list, taxi) THEN list ELSE <<taxi>> \o list

\* Dispatcher.addTaxi
AddTaxiList(list, taxi) == IF InList(list, taxi) THEN list ELSE Append(list, taxi)

AddTaxi(taxi) ==
    /\ taxis' = AddTaxiList(taxis, taxi)
    /\ last' = Event("addTaxi", Parent, None, None, 0, taxi, 0)
    /\ calls' = <<>>
    /\ raised' = "none"
    /\ allocs' = <<>>
    /\ UNCHANGED <<fareBoard, fareAmountConstraint, revenue>>

\* --------------------------------------------------------------- newFare
\* the body of newFare once the world matches: make the buckets, then overwrite
NewFareBoard(board, o, d, t) ==
    LET b1 == IF DictHas(board, o)
              THEN IF ~DictHas(DictGet(board, o), d)
                   THEN DictSet(board, o, DictSet(DictGet(board, o), d, <<>>))
                   ELSE board
              ELSE DictSet(board, o, <<[k |-> d, v |-> <<>>]>>)
    IN  SetEntry(b1, o, d, t, FareEntry(o, d, t))

\* newFare without its test of the world
NewFareAnyWorld(board, parent, o, d, t) == NewFareBoard(board, o, d, t)

\* Dispatcher.newFare
NewFareResult(board, parent, o, d, t) ==
    IF parent = Parent THEN NewFareBoard(board, o, d, t) ELSE board

NewFare(parent, o, d, t) ==
    /\ fareBoard' = NewFareResult(fareBoard, parent, o, d, t)
    /\ last' = Event("newFare", parent, o, d, t, 0, 0)
    /\ calls' = <<>>
    /\ raised' = "none"
    /\ allocs' = <<>>
    /\ UNCHANGED <<taxis, fareAmountConstraint, revenue>>

\* -------------------------------------------------------------- handover
\* Dispatcher.handover: the taxi list and the board it leaves
HandoverTaxis(list, parent, taxi) ==
    IF parent = Parent THEN AddTaxiList(list, taxi) ELSE list

HandoverBoard(board, list, parent, o, d, t, taxi, price) ==
    IF parent = Parent
    THEN LET b1 == NewFareResult(board, parent, o, d, t)
             e  == Entry(b1, o, d, t)
         IN  SetEntry(b1, o, d, t,
                      [e EXCEPT !.taxi = IndexOf(HandoverTaxis(list, parent, taxi), taxi),
                                !.price = price])
    ELSE board

Handover(parent, o, d, t, taxi, price) ==
    /\ taxis' = HandoverTaxis(taxis, parent, taxi)
    /\ fareBoard' = HandoverBoard(fareBoard, taxis, parent, o, d, t, taxi, price)
    /\ last' = Event("handover", parent, o, d, t, taxi, 0)
    /\ calls' = <<>>
    /\ raised' = "none"
    /\ allocs' = <<>>
    /\ UNCHANGED <<fareAmountConstraint, revenue>>

\* ------------------------------------------------------------ cancelFare
\* the pruning without its test for an empty destination bucket
PruneBoardEager(board, o, d) ==
    LET b1 == DictSet(board, o, DictDel(DictGet(board, o), d))
    IN  IF Len(DictGet(b1, o)) = 0 THEN DictDel(b1, o) ELSE b1

\* the pruning at the end of cancelFare: drop an empty destination bucket,
\* then an empty origin bucket
PruneBoard(board, o, d) ==
    LET b1 == IF Len(DictGet(DictGet(board, o), d)) = 0
              THEN DictSet(board, o, DictDel(DictGet(board, o), d))
              ELSE board
    IN  IF Len(DictGet(b1, o)) = 0 THEN DictDel(b1, o) ELSE b1

\* Dispatcher.cancelFare: the board, the calls on the world and the exception
CancelFareResult(board, list, parent, o, d, t) ==
    IF parent = Parent /\ DictHas(board, o) /\ DictHas(DictGet(board, o), d)
    THEN IF DictHas(DictGet(DictGet(board, o), d), t)
         THEN LET idx == Entry(board, o, d, t).taxi
              IN  IF ~ListAtOk(list, idx)
                  THEN [board |-> board, calls |-> <<>>, raised |-> "IndexError"]
                  ELSE [board |-> PruneBoard(
                                     DictSet(board, o,
                                             DictSet(DictGet(board, o), d,
                                                     DictDel(DictGet(DictGet(board, o), d), t))),
                                     o, d),
                        calls |-> <<[op |-> "cancelFare", origin |-> o, destination |-> None,
                                     arg |-> ListAt(list, idx)]>>,
                        raised |-> "none"]
         ELSE [board |-> PruneBoard(board, o, d), calls |-> <<>>, raised |-> "none"]
    ELSE [board |-> board, calls |-> <<>>, raised |-> "none"]

CancelFare(parent, o, d, t) ==
    LET r == CancelFareResult(fareBoard, taxis, parent, o, d, t)
    IN  /\ fareBoard' = r.board
        /\ calls' = r.calls
        /\ raised' = r.raised
        /\ last' = Event("cancelFare", parent, o, d, t, 0, 0)
        /\ allocs' = <<>>
        /\ UNCHANGED <<taxis, fareAmountConstraint, revenue>>

\* --------------------------------------------------------------- fareBid
\* the positions of an origin bucket, whether the fare has a taxi or not
OpenSlotsAny(bucket) ==
    UNION {{<<i, j>> : j \in 1 .. Len(bucket[i].v)} : i \in 1 .. Len(bucket)}

\* the (destination, time) positions of an origin bucket whose fare has no taxi,
\* as pairs of dict positions
OpenSlots(bucket) ==
    UNION {{<<i, j>> : j \in {x \in 1 .. Len(bucket[i].v) : bucket[i].v[x].v.taxi = -1}} :
           i \in 1 .. Len(bucket)}

\* the first of them in the iteration order of the two nested key loops
FirstSlot(slots) ==
    CHOOSE s \in slots : \A r \in slots : s[1] < r[1] \/ (s[1] = r[1] /\ s[2] <= r[2])

\* Dispatcher.fareBid
FareBidBoard(board, list, origin, taxi) ==
    IF InList(list, taxi) /\ DictHas(board, origin)
       /\ OpenSlots(DictGet(board, origin)) # {}
    THEN LET bucket == DictGet(board, origin)
             s == FirstSlot(OpenSlots(bucket))
             d == bucket[s[1]].k
             t == bucket[s[1]].v[s[2]].k
             e == bucket[s[1]].v[s[2]].v
         IN  SetEntry(board, origin, d, t,
                      [e EXCEPT !.bidders = Append(@, IndexOf(list, taxi))])
    ELSE board

FareBid(origin, taxi) ==
    /\ fareBoard' = FareBidBoard(fareBoard, taxis, origin, taxi)
    /\ last' = Event("fareBid", Parent, origin, None, 0, taxi, 0)
    /\ calls' = <<>>
    /\ raised' = "none"
    /\ allocs' = <<>>
    /\ UNCHANGED <<taxis, fareAmountConstraint, revenue>>

\* ----------------------------------------------------------- recvPayment
\* Dispatcher.recvPayment
RecvPaymentResult(rev, parent, amount) ==
    IF parent = Parent THEN rev + amount ELSE rev

RecvPayment(parent, amount) ==
    /\ revenue' = RecvPaymentResult(revenue, parent, amount)
    /\ last' = Event("recvPayment", parent, None, None, 0, 0, 0)
    /\ calls' = <<>>
    /\ raised' = "none"
    /\ allocs' = <<>>
    /\ UNCHANGED <<taxis, fareBoard, fareAmountConstraint>>

\* -------------------------------------------------------------- _costFare
\* the while loop of _costFare: add 1 until the sample reaches the limit
RECURSIVE CapLoop(_, _)
CapLoop(sample, limit) ==
    IF sample < limit THEN CapLoop(sample + PriceUnit, limit) ELSE sample

\* the sample of iteration i of the for loop, and its test against the ceiling;
\* n is the travel time scaled by TDen
SampleAt(i, n) == i * PriceUnit + 10 * n
BelowCeiling(i, n) == SampleAt(i, n) < CeilingFactor * 9 * n - PriceUnit

\* the iteration at which the for loop takes its else branch, SampleCount when
\* every iteration passes the test
FirstOver(n) ==
    IF \A i \in 0 .. SampleCount - 1 : BelowCeiling(i, n)
    THEN SampleCount
    ELSE CHOOSE i \in 0 .. SampleCount - 1 :
            ~BelowCeiling(i, n) /\ \A j \in 0 .. i - 1 : BelowCeiling(j, n)

\* the for loop of _costFare: costSample when it ends (<<>> for None), or the
\* exception of the while loop's comparison when costSample is still None
CostLoop(n) ==
    LET stop == FirstOver(n)
    IN  IF stop = SampleCount
        THEN [raised |-> "none", sample |-> <<SampleAt(SampleCount - 1, n)>>]
        ELSE IF stop = 0
             THEN [raised |-> "TypeError", sample |-> <<>>]
             ELSE [raised |-> "none",
                   sample |-> <<CapLoop(SampleAt(stop - 1, n),
                                        CeilingFactor * 9 * n - PriceUnit)>>]

\* Dispatcher._costFare on travel time n / TDen: the price (scaled by PriceUnit),
\* or the exception raised by comparing None with a number
CostFare(n) ==
    LET r == IF n > 0 THEN CostLoop(n) ELSE [raised |-> "none", sample |-> <<>>]
    IN  IF r.raised # "none"
        THEN [raised |-> r.raised, price |-> 0]
        ELSE IF r.sample # <<>> /\ r.sample[1] > 0
             THEN [raised |-> "none", price |-> r.sample[1]]
             ELSE [raised |-> "none", price |-> FlatPrice * PriceUnit]

\* ---------------------------------------------------------- _allocateFare
\* the keys of a dict filled by a loop over s: the first occurrences, in order
RECURSIVE Dedup(_)
Dedup(s) ==
    IF s = <<>> THEN <<>>
    ELSE LET r == Dedup(SubSeq(s, 1, Len(s) - 1))
         IN  IF InList(r, s[Len(s)]) THEN r ELSE Append(r, s[Len(s)])

\* min(dict, key=dict.get): the first key, in insertion order, of least value
MinKey(keys, f) ==
    keys[CHOOSE i \in 1 .. Len(keys) :
            /\ \A j \in 1 .. Len(keys) : f[keys[i]] <= f[keys[j]]
            /\ \A j \in 1 .. i - 1 : f[keys[j]] > f[keys[i]]]

\* the node of bidder i's current location
BidderNode(list, w, i) == GetNode(w.loc[ListAt(list, i)])

\* the stuck-taxi check of _allocateFare: some taxi's path ends at the origin or
\* at the destination with the length of some bidder's travel time
PathConflict(list, w, bidders, o, d) ==
    \E x \in 1 .. Len(bidders), y \in 1 .. Len(list) :
        LET travelToOrigin == TravelTime(w, BidderNode(list, w, bidders[x]), GetNode(o))
            travelToDestination == TravelTime(w, BidderNode(list, w, bidders[x]), GetNode(d))
            path == w.path[list[y]]
        IN  /\ Len(path) > 0
            /\ \/ Len(path) * TDen = travelToOrigin /\ o = path[Len(path)]
               \/ /\ Len(path) * TDen = travelToOrigin + travelToDestination
                  /\ d = path[Len(path)]

\* the choice among veterans: those at the least count of the whole ledger, by
\* travel time; the closest bidder when no bidder is at that count
VeteranChoice(ledger, constraintKeys, times) ==
    LET minFareAmount == CHOOSE m \in {ledger[i] : i \in DOMAIN ledger} :
                            \A i \in DOMAIN ledger : m <= ledger[i]
        lowestFares == {i \in DOMAIN ledger : ledger[i] = minFareAmount}
        validBidders == SelectSeq(constraintKeys, LAMBDA x : x \in lowestFares)
    IN  IF Len(validBidders) > 1 THEN MinKey(validBidders, times)
        ELSE IF Len(validBidders) > 0 THEN validBidders[1]
        ELSE MinKey(constraintKeys, times)

\* the pick from the whole ledger: the taxi of least count, bidder or not
AllocatedTaxiLeastCount(list, w, ledger, bidders, fareNode) ==
    IF DOMAIN ledger = {} THEN bidders[1]
    ELSE CHOOSE i \in DOMAIN ledger :
            \A j \in DOMAIN ledger :
                ledger[i] < ledger[j] \/ (ledger[i] = ledger[j] /\ i <= j)

\* the pick without the ledger: the closest bidder
AllocatedTaxiNearest(list, w, ledger, bidders, fareNode) ==
    MinKey(Dedup(bidders),
           [i \in {bidders[x] : x \in 1 .. Len(bidders)} |->
               TravelTime(w, BidderNode(list, w, i), fareNode)])

\* the taxi _allocateFare picks; fareNode is the fare's node after the stuck-taxi
\* check (None when it found a conflict)
AllocatedTaxi(list, w, ledger, bidders, fareNode) ==
    IF Len(bidders) > 1
    THEN LET times == [i \in {bidders[x] : x \in 1 .. Len(bidders)} |->
                          TravelTime(w, BidderNode(list, w, i), fareNode)]
             initialKeys == SelectSeq(Dedup(bidders), LAMBDA i : i \notin DOMAIN ledger)
             constraintKeys == SelectSeq(Dedup(bidders), LAMBDA i : i \in DOMAIN ledger)
         IN  IF initialKeys # <<>> THEN MinKey(initialKeys, times)
             ELSE VeteranChoice(ledger, constraintKeys, times)
    ELSE bidders[1]

\* whether _allocateFare goes on to pick a taxi at all
AllocateGuard(list, board, o) ==
    Len(list) > 0 /\ Len(board) > 0 /\ GetNode(o) # None

\* the award with a count that starts again at 1
AwardLedgerRestart(ledger, taxi) == (taxi :> 1) @@ ledger

\* the update of fareAmountConstraint at an award
AwardLedger(ledger, taxi) ==
    IF taxi \in DOMAIN ledger THEN [ledger EXCEPT ![taxi] = @ + 1]
    ELSE (taxi :> 1) @@ ledger

\* Dispatcher._allocateFare on dispatcher state D = [board, ledger, calls, raised,
\* allocs], with the taxi list and the world as they are during the tick
AllocateFare(D, list, w, o, d, t) ==
    LET e == Entry(D.board, o, d, t)
        conflict == PathConflict(list, w, e.bidders, o, d)
        fareNode == IF conflict THEN None ELSE GetNode(o)
        allocatedTaxi == IF AllocateGuard(list, D.board, o)
                         THEN AllocatedTaxi(list, w, D.ledger, e.bidders, fareNode)
                         ELSE -1
        record == [origin |-> o, destination |-> d, time |-> t, bidders |-> e.bidders,
                   ledger |-> D.ledger,
                   conflict |-> AllocateGuard(list, D.board, o) /\ conflict,
                   toOrigin |-> [i \in {e.bidders[x] : x \in 1 .. Len(e.bidders)} |->
                                    TravelTime(w, BidderNode(list, w, i), GetNode(o))],
                   winner |-> allocatedTaxi]
    IN  IF allocatedTaxi >= 0
        THEN [D EXCEPT
                !.board = SetEntry(D.board, o, d, t, [e EXCEPT !.taxi = allocatedTaxi]),
                !.calls = Append(@, [op |-> "allocateFare", origin |-> o,
                                     destination |-> None,
                                     arg |-> ListAt(list, allocatedTaxi)]),
                !.ledger = AwardLedger(D.ledger, allocatedTaxi),
                !.allocs = Append(@, record)]
        ELSE [D EXCEPT !.allocs = Append(@, record)]

\* ------------------------------------------------------------- clockTick
RECURSIVE Flatten(_)
Flatten(ss) == IF ss = <<>> THEN <<>> ELSE Head(ss) \o Flatten(Tail(ss))

\* sorted(list(bucket.keys()))
SortedTimes(bucket) == SortSeq(DictKeys(bucket), LAMBDA a, b : a < b)

\* the (origin, destination, time) keys in the order the three loops of clockTick
\* visit them
TickOrder(board) ==
    Flatten([i \in 1 .. Len(board) |->
        Flatten([j \in 1 .. Len(board[i].v) |->
            [x \in 1 .. Len(board[i].v[j].v) |->
                <<board[i].k, board[i].v[j].k, SortedTimes(board[i].v[j].v)[x]>>]])])

\* the test without its check that the fare has no taxi yet
ShouldAllocateAssigned(e) == Len(e.bidders) > 0

\* the test with > 1 for > 0
ShouldAllocateSeveral(e) == e.taxi < 0 /\ Len(e.bidders) > 1

\* whether the tick hands a fare to _allocateFare
ShouldAllocate(e) == e.taxi < 0 /\ Len(e.bidders) > 0

\* the loop body with "if" for "elif": a fare just priced goes on to _allocateFare
TickStepThrough(D, list, w, o, d, t) ==
    LET e == Entry(D.board, o, d, t)
        c == CostFare(TravelTime(w, GetNode(e.origin), GetNode(e.destination)))
        P == IF e.price # 0 THEN D
             ELSE IF c.raised # "none" THEN [D EXCEPT !.raised = c.raised]
             ELSE [D EXCEPT
                     !.board = SetEntry(D.board, o, d, t, [e EXCEPT !.price = c.price]),
                     !.calls = Append(@, [op |-> "broadcastFare", origin |-> o,
                                          destination |-> d, arg |-> c.price])]
    IN  IF P.raised = "none" /\ ShouldAllocate(Entry(P.board, o, d, t))
        THEN AllocateFare(P, list, w, o, d, t)
        ELSE P

\* the body of the innermost loop of clockTick for one fare
TickStep(D, list, w, o, d, t) ==
    LET e == Entry(D.board, o, d, t)
    IN  IF e.price = 0
        THEN LET c == Once(TravelTime(w, GetNode(e.origin), GetNode(e.destination)), CostFare)
             IN  IF c.raised # "none"
                 THEN [D EXCEPT !.raised = c.raised]
                 ELSE [D EXCEPT
                         !.board = SetEntry(D.board, o, d, t, [e EXCEPT !.price = c.price]),
                         !.calls = Append(@, [op |-> "broadcastFare", origin |-> o,
                                              destination |-> d, arg |-> c.price])]
        ELSE IF ShouldAllocate(e)
             THEN AllocateFare(D, list, w, o, d, t)
             ELSE D

\* the loops of clockTick over the keys still to visit; an exception ends them
RECURSIVE TickLoop(_, _, _, _)
TickLoop(D, list, w, keys) ==
    IF keys = <<>> \/ D.raised # "none" THEN D
    ELSE Once(Head(keys), LAMBDA h :
              Once(TickStep(D, list, w, h[1], h[2], h[3]), LAMBDA S :
                  TickLoop(S, list, w, Tail(keys))))

\* Dispatcher.clockTick (displayRevenues only prints)
ClockTickResult(board, ledger, list, parent, w) ==
    LET D == [board |-> board, ledger |-> ledger, calls |-> <<>>, raised |-> "none",
              allocs |-> <<>>]
    IN  IF parent = Parent THEN TickLoop(D, list, w, TickOrder(board)) ELSE D

ClockTick(parent, w) ==
    LET r == ClockTickResult(fareBoard, fareAmountConstraint, taxis, parent, w)
    IN  /\ fareBoard' = r.board
        /\ fareAmountConstraint' = r.ledger
        /\ calls' = r.calls
        /\ raised' = r.raised
        /\ allocs' = r.allocs
        /\ last' = Event("clockTick", parent, None, None, 0, 0, w.traffic)
        /\ UNCHANGED <<taxis, revenue>>

\* ------------------------------------------------------------ the system
\* the worlds a tick can find: the taxis of movers are at one of locs, the taxis
\* of planners plan one of paths, every other taxi waits at node 0 with no plan
WorldsOf(movers, locs, planners, paths, traffics) ==
    {w \in [loc : [TaxiPool -> locs \cup {0}], path : [TaxiPool -> paths \cup {<<>>}],
            traffic : traffics] :
        /\ \A x \in TaxiPool \ movers : w.loc[x] = 0
        /\ \A x \in TaxiPool \ planners : w.path[x] = <<>>}

\* the bounds of the model, on the state a step leads to
FaresWithin(n) == Cardinality(BoardKeys(fareBoard')) <= n
BidsWithin(n) ==
    \A k \in BoardKeys(fareBoard') : Len(Entry(fareBoard', k[1], k[2], k[3]).bidders) <= n
CountsWithin(n) == \A i \in DOMAIN fareAmountConstraint' : fareAmountConstraint'[i] <= n
RevenueWithin(n) == revenue' <= n

\* ---- Spec: every event, two taxis, one fare key
MainTaxis == {1, 2}
MainKeys == {<<0, 2, 1>>}
ForeignKeys == {<<0, 2, 1>>}
MainOrigins == {k[1] : k \in MainKeys}
HandoverPrices == {0, 5 * PriceUnit}
MainWorlds == WorldsOf(MainTaxis, {0, 1}, {1}, {<<0>>}, {1, TDen})

Next ==
    \/ \E x \in MainTaxis : AddTaxi(x)
    \/ \E k \in MainKeys : NewFare(Parent, k[1], k[2], k[3])
    \/ \E k \in MainKeys, x \in MainTaxis, c \in HandoverPrices :
          Handover(Parent, k[1], k[2], k[3], x, c)
    \/ \E k \in MainKeys : CancelFare(Parent, k[1], k[2], k[3])
    \/ \E o \in MainOrigins, x \in MainTaxis : FareBid(o, x) /\ BidsWithin(MaxBids)
    \/ RecvPayment(Parent, 1) /\ RevenueWithin(MaxRevenue)
    \/ \E w \in MainWorlds : ClockTick(Parent, w) /\ CountsWithin(MaxCount)
    \/ \E k \in ForeignKeys : NewFare("elsewhere", k[1], k[2], k[3])
    \/ \E k \in ForeignKeys : Handover("elsewhere", k[1], k[2], k[3], 1, 0)
    \/ \E k \in ForeignKeys : CancelFare("elsewhere", k[1], k[2], k[3])
    \/ RecvPayment("elsewhere", 1)
    \/ ClockTick("elsewhere", NoWorld)

Spec == Init /\ [][Next]_vars


\* ---- SpecRegistry: the fare board with several fares, one taxi
RegTaxis == {1}
RegKeys == {<<0, 1, 1>>, <<0, 1, 2>>, <<0, 2, 1>>, <<3, 1, 1>>}
RegOrigins == {k[1] : k \in RegKeys}
RegWorlds == WorldsOf({}, {0}, {}, {<<>>}, {TDen})

NextRegistry ==
    \/ \E x \in RegTaxis : AddTaxi(x)
    \/ \E k \in RegKeys : NewFare(Parent, k[1], k[2], k[3]) /\ FaresWithin(RegFares)
    \/ \E k \in RegKeys, x \in RegTaxis :
          Handover(Parent, k[1], k[2], k[3], x, 5 * PriceUnit) /\ FaresWithin(RegFares)
    \/ \E k \in RegKeys : CancelFare(Parent, k[1], k[2], k[3])
    \/ \E o \in RegOrigins, x \in RegTaxis : FareBid(o, x) /\ BidsWithin(RegBids)
    \/ \E w \in RegWorlds : ClockTick(Parent, w) /\ CountsWithin(RegCount)

SpecRegistry == Init /\ [][NextRegistry]_vars

\* ---- SpecAlloc: one fare, three known taxis, any fares awarded before
AllocKeys == {<<0, 2, 1>>}
AllocOrigins == {k[1] : k \in AllocKeys}
AllocWorlds == WorldsOf(TaxiPool, {0, 2}, {1}, {<<1, 0>>, <<1, 2>>}, {TDen})
\* the ledgers that earlier fares, cancelled since, can have left
AllocLedgers ==
    UNION {[S -> 1 .. AllocCount] : S \in SUBSET {0, 1, 2}}

InitAlloc ==
    /\ taxis = <<1, 2, 3>>
    /\ fareBoard = <<>>
    /\ fareAmountConstraint \in AllocLedgers
    /\ revenue = 0
    /\ last = Event("init", Parent, None, None, 0, 0, 0)
    /\ calls = <<>>
    /\ raised = "none"
    /\ allocs = <<>>

NextAlloc ==
    \/ \E k \in AllocKeys : NewFare(Parent, k[1], k[2], k[3])
    \/ \E o \in AllocOrigins, x \in TaxiPool : FareBid(o, x) /\ BidsWithin(AllocBids)
    \/ \E w \in AllocWorlds : ClockTick(Parent, w) /\ CountsWithin(AllocCount + 1)

SpecAlloc == InitAlloc /\ [][NextAlloc]_vars

\* ---- SpecLedger: one fare key registered, handed over, cancelled and awarded
\* again and again, two taxis
LedgerKeys == {<<0, 2, 1>>}
LedgerOrigins == {k[1] : k \in LedgerKeys}
LedgerWorlds == WorldsOf(MainTaxis, {0, 1}, {}, {<<>>}, {TDen})

NextLedger ==
    \/ \E x \in MainTaxis : AddTaxi(x)
    \/ \E k \in LedgerKeys : NewFare(Parent, k[1], k[2], k[3])
    \/ \E k \in LedgerKeys, x \in MainTaxis :
          Handover(Parent, k[1], k[2], k[3], x, 5 * PriceUnit)
    \/ \E k \in LedgerKeys : CancelFare(Parent, k[1], k[2], k[3])
    \/ \E o \in LedgerOrigins, x \in MainTaxis : FareBid(o, x) /\ BidsWithin(LedgerBids)
    \/ RecvPayment(Parent, 1) /\ RevenueWithin(LedgerRevenue)
    \/ \E w \in LedgerWorlds : ClockTick(Parent, w) /\ CountsWithin(LedgerCount)

SpecLedger == Init /\ [][NextLedger]_vars

\* ---- SpecVeteran: one fare, three known taxis that all have a count, no plans
VetKeys == {<<0, 2, 1>>}
VetOrigins == {k[1] : k \in VetKeys}
VetWorlds == WorldsOf(TaxiPool, {0, 2}, {}, {<<>>}, {TDen})
\* the ledgers that earlier fares, cancelled since, can have left
VetLedgers == [{0, 1, 2} -> 1 .. VetCount]

InitVeteran ==
    /\ taxis = <<1, 2, 3>>
    /\ fareBoard = <<>>
    /\ fareAmountConstraint \in VetLedgers
    /\ revenue = 0
    /\ last = Event("init", Parent, None, None, 0, 0, 0)
    /\ calls = <<>>
    /\ raised = "none"
    /\ allocs = <<>>

NextVeteran ==
    \/ \E k \in VetKeys : NewFare(Parent, k[1], k[2], k[3]) /\ fareBoard = <<>>
    \/ \E o \in VetOrigins, x \in TaxiPool : FareBid(o, x) /\ BidsWithin(VetBids)
    \/ \E w \in VetWorlds : ClockTick(Parent, w)

SpecVeteran == InitVeteran /\ [][NextVeteran]_vars

\* ---- SpecLive: two fares of one origin, one taxi, ticks that keep occurring in a
\* world where the nearer destination is at travel time 0.1 and the other at 0.2
LiveTaxis == {1}
LiveKeys == {<<0, 1, 1>>, <<0, 2, 1>>}
LiveOrigins == {k[1] : k \in LiveKeys}
LiveWorlds == WorldsOf({}, {0}, {}, {<<>>}, {1})
CountsBelow(n) == \A i \in DOMAIN fareAmountConstraint : fareAmountConstraint[i] < n

TickLive == \E w \in LiveWorlds : ClockTick(Parent, w)

NextLive ==
    \/ \E x \in LiveTaxis : AddTaxi(x)
    \/ \E k \in LiveKeys : NewFare(Parent, k[1], k[2], k[3]) /\ CountsBelow(LiveCount)
    \/ \E k \in LiveKeys : CancelFare(Parent, k[1], k[2], k[3])
    \/ \E o \in LiveOrigins, x \in LiveTaxis : FareBid(o, x) /\ BidsWithin(LiveBids)
    \/ TickLive

\* the world calls clockTick again and again
SpecLive == Init /\ [][NextLive]_vars /\ WF_vars(TickLive)

\* ---- SpecCost: one fare, near, far or off the map, priced at every traffic
CostKeys == {<<0, 1, 1>>, <<0, 9, 1>>, <<3, 1, 1>>}
CostWorlds == WorldsOf({}, {0}, {}, {<<>>}, 0 .. MaxTraffic)

NextCost ==
    \/ \E k \in CostKeys : NewFare(Parent, k[1], k[2], k[3]) /\ fareBoard = <<>>
    \/ \E k \in CostKeys : CancelFare(Parent, k[1], k[2], k[3])
    \/ \E w \in CostWorlds : ClockTick(Parent, w)

SpecCost == Init /\ [][NextCost]_vars


\* ================================================================ claims
\* the key of the event handled last
LastKey == <<last.origin, last.destination, last.time>>
\* the event handled last came from the dispatcher's own world
OwnEvent(op) == last.op = op /\ last.parent = Parent
\* the agent assigned to the fare at key k, None when there is none
AssignedAgent(board, list, k) ==
    IF Entry(board, k[1], k[2], k[3]).taxi < 0 THEN None
    ELSE ListAt(list, Entry(board, k[1], k[2], k[3]).taxi)
\* the set of elements of a sequence
Range(seq) == {seq[i] : i \in 1 .. Len(seq)}

\* C1: a clockTick leaves the assigned agent of every fare that has one as it is.
C1_TickKeepsAssignedAgent ==
    [][OwnEvent("clockTick")' =>
        \A k \in BoardKeys(fareBoard) :
            AssignedAgent(fareBoard, taxis, k) # None =>
                /\ HasKey(fareBoard', k[1], k[2], k[3])
                /\ AssignedAgent(fareBoard', taxis', k) = AssignedAgent(fareBoard, taxis, k)]_vars

\* a tick has just run over a priced fare with several bidders that was assigned
\* before this tick, and handed nothing to _allocateFare
C1_Witness ==
    /\ OwnEvent("clockTick")
    /\ allocs = <<>>
    /\ \E k \in BoardKeys(fareBoard) :
          /\ AssignedAgent(fareBoard, taxis, k) # None
          /\ Entry(fareBoard, k[1], k[2], k[3]).price > 0
          /\ Cardinality(Range(Entry(fareBoard, k[1], k[2], k[3]).bidders)) > 1

\* C2: an _allocateFare invocation whose stuck-taxi check finds a path conflict
\* assigns no taxi to the fare, makes no allocateFare call on the world and leaves
\* the ledger as it was.
C2_GuardDefers ==
    \A i \in 1 .. Len(allocs) :
        allocs[i].conflict =>
            /\ allocs[i].winner = -1
            /\ Entry(fareBoard, allocs[i].origin, allocs[i].destination, allocs[i].time).taxi = -1
            /\ \A j \in 1 .. Len(calls) :
                  ~(calls[j].op = "allocateFare" /\ calls[j].origin = allocs[i].origin)
            /\ Len(allocs) = 1 => fareAmountConstraint = allocs[i].ledger

\* C3: when the bidders of an awarded fare include a taxi absent from the ledger
\* and a taxi present in it, the winner is a bidder absent from the ledger.
C3_FirstTimerWins ==
    \A i \in 1 .. Len(allocs) :
        LET a == allocs[i]
        IN  (/\ a.winner >= 0
             /\ \E b \in Range(a.bidders) : b \notin DOMAIN a.ledger
             /\ \E b \in Range(a.bidders) : b \in DOMAIN a.ledger) =>
                /\ a.winner \in Range(a.bidders)
                /\ a.winner \notin DOMAIN a.ledger
                /\ Entry(fareBoard, a.origin, a.destination, a.time).taxi = a.winner
                /\ a.winner \in DOMAIN fareAmountConstraint

\* a first-timer has just won against a veteran that was strictly closer to the origin
C3_Witness ==
    \E i \in 1 .. Len(allocs) :
        LET a == allocs[i]
        IN  /\ a.winner >= 0
            /\ ~a.conflict
            /\ a.winner \notin DOMAIN a.ledger
            /\ \E b \in Range(a.bidders) :
                  /\ b \in DOMAIN a.ledger
                  /\ a.toOrigin[b] < a.toOrigin[a.winner]

\* C4: when the bidders of an awarded fare are exactly two distinct veterans with
\* equal counts, the winner is the one with the smaller travel time to the origin.
C4_EqualCountsNearestWins ==
    \A i \in 1 .. Len(allocs) :
        LET a == allocs[i]
        IN  \A x, y \in Range(a.bidders) :
                (/\ a.winner >= 0
                 /\ Range(a.bidders) = {x, y}
                 /\ x # y
                 /\ x \in DOMAIN a.ledger
                 /\ y \in DOMAIN a.ledger
                 /\ a.ledger[x] = a.ledger[y]
                 /\ a.toOrigin[x] < a.toOrigin[y]) => a.winner = x

\* the travel time (scaled by TDen) of the fare of a broadcastFare call of the tick
\* handled last
BroadcastTravelTime(c) ==
    TravelTime([NoWorld EXCEPT !.traffic = last.traffic], GetNode(c.origin),
               GetNode(c.destination))

\* C5: a tick always gets a price from _costFare: below 10 * T and above 0 when the
\* travel time T is positive, 150 otherwise.
C5_PriceBound ==
    OwnEvent("clockTick") =>
        /\ raised = "none"
        /\ \A j \in 1 .. Len(calls) :
              calls[j].op = "broadcastFare" =>
                  LET n == BroadcastTravelTime(calls[j])
                  IN  /\ n > 0 => 0 < calls[j].arg /\ calls[j].arg < CeilingFactor * 9 * n
                      /\ n <= 0 => calls[j].arg = FlatPrice * PriceUnit

\* the part of C5 the code keeps: whenever _costFare returns, the price is in bounds
C5_PriceBoundWhenReturned ==
    OwnEvent("clockTick") =>
        \A j \in 1 .. Len(calls) :
            calls[j].op = "broadcastFare" =>
                LET n == BroadcastTravelTime(calls[j])
                IN  /\ n > 0 => 0 < calls[j].arg /\ calls[j].arg < CeilingFactor * 9 * n
                    /\ n <= 0 => calls[j].arg = FlatPrice * PriceUnit


\* the part of C4 the code keeps: the same, for an invocation whose stuck-taxi check
\* found no conflict
C4_EqualCountsNearestWinsNoConflict ==
    \A i \in 1 .. Len(allocs) :
        LET a == allocs[i]
        IN  \A x, y \in Range(a.bidders) :
                (/\ a.winner >= 0
                 /\ ~a.conflict
                 /\ Range(a.bidders) = {x, y}
                 /\ x # y
                 /\ x \in DOMAIN a.ledger
                 /\ y \in DOMAIN a.ledger
                 /\ a.ledger[x] = a.ledger[y]
                 /\ a.toOrigin[x] < a.toOrigin[y]) => a.winner = x

\* the event handled last registered key k: a newFare or a handover of the own world
Registered(k) ==
    /\ last.op \in {"newFare", "handover"}
    /\ last.parent = Parent
    /\ LastKey = k

\* C6 as stated: no step changes or clears the assigned agent of a key that stays
\* in the fare board.
C6_AssignedAgentNeverChanges ==
    [][\A k \in BoardKeys(fareBoard) :
          (AssignedAgent(fareBoard, taxis, k) # None /\ HasKey(fareBoard', k[1], k[2], k[3])) =>
              AssignedAgent(fareBoard', taxis', k) = AssignedAgent(fareBoard, taxis, k)]_vars

\* C6 as amended: no step but a newFare or a handover of that key changes or clears
\* the assigned agent of a key that stays in the fare board; a newFare leaves its
\* key without an assigned agent, a handover leaves its key with the agent handed over.
C6_AssignedAgentKeptUnlessRegistered ==
    [][/\ \A k \in BoardKeys(fareBoard) :
             (/\ AssignedAgent(fareBoard, taxis, k) # None
              /\ HasKey(fareBoard', k[1], k[2], k[3])
              /\ ~Registered(k)') =>
                 AssignedAgent(fareBoard', taxis', k) = AssignedAgent(fareBoard, taxis, k)
       /\ OwnEvent("newFare")' => AssignedAgent(fareBoard', taxis', LastKey') = None
       /\ OwnEvent("handover")' => AssignedAgent(fareBoard', taxis', LastKey') = last'.taxi]_vars

\* a known taxi has just bid at the origin of a fare that has an assigned agent
C6_Witness ==
    /\ last.op = "fareBid"
    /\ InList(taxis, last.taxi)
    /\ \E k \in BoardKeys(fareBoard) :
          k[1] = last.origin /\ AssignedAgent(fareBoard, taxis, k) # None

\* C7: no taxi is twice in the bidder list of a fare.
C7_BiddersDistinct ==
    \A k \in BoardKeys(fareBoard) :
        LET b == Entry(fareBoard, k[1], k[2], k[3]).bidders
        IN  \A i, j \in 1 .. Len(b) : i # j => b[i] # b[j]

\* every origin bucket holds a destination and every destination bucket a time
NoEmptyBucket ==
    \A i \in 1 .. Len(fareBoard) :
        /\ Len(fareBoard[i].v) > 0
        /\ \A j \in 1 .. Len(fareBoard[i].v) : Len(fareBoard[i].v[j].v) > 0

\* C8: a cancelFare of a key of the fare board removes the key, a tick prices,
\* broadcasts and allocates only fares of the board, and no bucket is ever empty.
C8_CancelRemovesKey ==
    [][/\ (OwnEvent("cancelFare")' /\ HasKey(fareBoard, last'.origin, last'.destination, last'.time))
             => ~HasKey(fareBoard', last'.origin, last'.destination, last'.time)
       /\ OwnEvent("clockTick")' =>
             \A j \in 1 .. Len(calls') : \E k \in BoardKeys(fareBoard) : k[1] = calls'[j].origin
       /\ NoEmptyBucket']_vars

\* C9: a cancelFare of a key that is not in the fare board changes nothing, calls
\* nothing and raises nothing; after a cancelFare that went through, cancelling the
\* same key again does the same.
C9_CancelAbsentKeyIsNoOp ==
    [][OwnEvent("cancelFare")' =>
          /\ ~HasKey(fareBoard, last'.origin, last'.destination, last'.time) =>
                /\ UNCHANGED <<taxis, fareBoard, fareAmountConstraint, revenue>>
                /\ calls' = <<>>
                /\ raised' = "none"
          /\ raised' = "none" =>
                CancelFareResult(fareBoard', taxis', Parent,
                                 last'.origin, last'.destination, last'.time)
                   = [board |-> fareBoard', calls |-> <<>>, raised |-> "none"]]_vars

\* a cancelFare has just found the origin and the destination of its key in the
\* fare board, but not the time, and did nothing
C9_Witness ==
    /\ OwnEvent("cancelFare")
    /\ calls = <<>>
    /\ raised = "none"
    /\ DictHas(fareBoard, last.origin)
    /\ DictHas(DictGet(fareBoard, last.origin), last.destination)
    /\ ~HasKey(fareBoard, last.origin, last.destination, last.time)

\* C10: a cancelFare of a fare of the board notifies the assigned agent and nobody
\* else; when the fare has no assigned agent it calls nothing, raises nothing and
\* removes the entry.
C10_CancelNotifiesOnlyAssigned ==
    [][(OwnEvent("cancelFare")' /\ HasKey(fareBoard, last'.origin, last'.destination, last'.time)) =>
          IF AssignedAgent(fareBoard, taxis, LastKey') = None
          THEN /\ calls' = <<>>
               /\ raised' = "none"
               /\ ~HasKey(fareBoard', last'.origin, last'.destination, last'.time)
          ELSE /\ Len(calls') = 1
               /\ calls'[1].op = "cancelFare"
               /\ calls'[1].arg = AssignedAgent(fareBoard, taxis, LastKey')]_vars


\* the part of C8 the code keeps: a cancelFare that raises nothing removes its key
C8_CancelRemovesKeyUnlessRaised ==
    [][/\ (/\ OwnEvent("cancelFare")'
           /\ raised' = "none"
           /\ HasKey(fareBoard, last'.origin, last'.destination, last'.time))
             => ~HasKey(fareBoard', last'.origin, last'.destination, last'.time)
       /\ OwnEvent("clockTick")' =>
             \A j \in 1 .. Len(calls') : \E k \in BoardKeys(fareBoard) : k[1] = calls'[j].origin
       /\ NoEmptyBucket']_vars

\* the fares awarded to the taxi of index i by the step: the keys whose entry had no
\* taxi before it and has taxi i after it
AwardedTo(i) ==
    {k \in BoardKeys(fareBoard) \cap BoardKeys(fareBoard') :
        /\ Entry(fareBoard, k[1], k[2], k[3]).taxi = -1
        /\ Entry(fareBoard', k[1], k[2], k[3]).taxi = i}

\* the count of the taxi of index i, 0 when it has none
CountOf(ledger, i) == IF i \in DOMAIN ledger THEN ledger[i] ELSE 0

\* C11: only a tick changes the ledger; a tick adds to the count of every taxi the
\* number of fares it awards to that taxi, 1 for one award, a first award giving
\* the count 1, and leaves every other count as it was.
C11_CountsFollowAwards ==
    [][/\ ~OwnEvent("clockTick")' => fareAmountConstraint' = fareAmountConstraint
       /\ OwnEvent("clockTick")' =>
             /\ \A i \in 0 .. Len(taxis) - 1 :
                   CountOf(fareAmountConstraint', i)
                      = CountOf(fareAmountConstraint, i) + Cardinality(AwardedTo(i))
             /\ DOMAIN fareAmountConstraint' =
                   DOMAIN fareAmountConstraint
                      \cup {i \in 0 .. Len(taxis) - 1 : AwardedTo(i) # {}}
             /\ DOMAIN fareAmountConstraint' \subseteq 0 .. Len(taxis) - 1]_vars

\* a tick has just awarded a fare to a taxi that had a count already, while another
\* taxi with a count got nothing
C11_Witness ==
    /\ OwnEvent("clockTick")
    /\ \E i \in 1 .. Len(allocs) :
          /\ allocs[i].winner \in DOMAIN allocs[i].ledger
          /\ fareAmountConstraint[allocs[i].winner] = allocs[i].ledger[allocs[i].winner] + 1
          /\ \E j \in DOMAIN allocs[i].ledger : j # allocs[i].winner

\* C12: an event that declares a world other than the dispatcher's own leaves the
\* fare board with its bidder lists, the ledger, the revenue and the taxi list as
\* they were, calls nothing on the world and raises nothing.
C12_ForeignEventChangesNothing ==
    [][last'.parent # Parent =>
          /\ last'.op \in {"newFare", "cancelFare", "recvPayment", "handover", "clockTick"}
          /\ UNCHANGED <<taxis, fareBoard, fareAmountConstraint, revenue>>
          /\ calls' = <<>>
          /\ raised' = "none"]_vars

\* a cancelFare from a foreign world has just named a fare of the board that has
\* an assigned agent, and the fare is still there
C12_Witness ==
    /\ last.op = "cancelFare"
    /\ last.parent # Parent
    /\ HasKey(fareBoard, last.origin, last.destination, last.time)
    /\ AssignedAgent(fareBoard, taxis, LastKey) # None

\* the keys of the board at origin o whose fare has no assigned agent
OpenKeysAt(board, o) ==
    {k \in BoardKeys(board) : k[1] = o /\ Entry(board, k[1], k[2], k[3]).taxi = -1}

\* C13: a fareBid changes nothing but bidder lists, and at most one of them; it
\* changes none when the taxi is not known, when the origin has no fare in the
\* board, or when every fare of the origin has an assigned agent.
C13_BidChangesAtMostOneList ==
    [][last'.op = "fareBid" =>
          /\ UNCHANGED <<taxis, fareAmountConstraint, revenue>>
          /\ calls' = <<>>
          /\ raised' = "none"
          /\ BoardKeys(fareBoard') = BoardKeys(fareBoard)
          /\ \A k \in BoardKeys(fareBoard) :
                Entry(fareBoard', k[1], k[2], k[3]) =
                   [Entry(fareBoard, k[1], k[2], k[3]) EXCEPT
                       !.bidders = Entry(fareBoard', k[1], k[2], k[3]).bidders]
          /\ Cardinality({k \in BoardKeys(fareBoard) :
                             Entry(fareBoard', k[1], k[2], k[3])
                                # Entry(fareBoard, k[1], k[2], k[3])}) <= 1
          /\ (\/ ~InList(taxis, last'.taxi)
              \/ OpenKeysAt(fareBoard, last'.origin) = {}) => fareBoard' = fareBoard]_vars

\* a taxi the dispatcher does not know has just bid at an origin that has a fare
\* with no assigned agent
C13_Witness ==
    /\ last.op = "fareBid"
    /\ ~InList(taxis, last.taxi)
    /\ OpenKeysAt(fareBoard, last.origin) # {}

\* a known taxi has just bid at an origin with two fares that have no assigned
\* agent, and one of them has no bidder
C13_WitnessOneOfTwo ==
    /\ last.op = "fareBid"
    /\ InList(taxis, last.taxi)
    /\ \E k1, k2 \in OpenKeysAt(fareBoard, last.origin) :
          /\ k1 # k2
          /\ Entry(fareBoard, k1[1], k1[2], k1[3]).bidders # <<>>
          /\ Entry(fareBoard, k2[1], k2[2], k2[3]).bidders = <<>>

\* the allocateFare calls of the handler that ran last, for origin o and taxi x
AllocateCalls(cs, o, x) ==
    {j \in 1 .. Len(cs) : cs[j].op = "allocateFare" /\ cs[j].origin = o /\ cs[j].arg = x}

\* C14: a tick that ends without an exception, over a priced fare with no assigned
\* agent, one bidder, an origin that resolves to a node and no path conflict, gives
\* the fare to that bidder, calls allocateFare once for the origin and that taxi,
\* and makes the taxi's count 1 when it had none.
C14_SingleBidderAwarded ==
    [][OwnEvent("clockTick")' =>
          \A k \in BoardKeys(fareBoard) :
              LET e == Entry(fareBoard, k[1], k[2], k[3])
              IN  (/\ e.price > 0
                   /\ e.taxi = -1
                   /\ Cardinality(Range(e.bidders)) = 1
                   /\ GetNode(k[1]) # None
                   /\ raised' = "none"
                   /\ ~\E i \in 1 .. Len(allocs') :
                          /\ <<allocs'[i].origin, allocs'[i].destination, allocs'[i].time>> = k
                          /\ allocs'[i].conflict) =>
                      /\ HasKey(fareBoard', k[1], k[2], k[3])
                      /\ Entry(fareBoard', k[1], k[2], k[3]).taxi = e.bidders[1]
                      /\ Cardinality(AllocateCalls(calls', k[1], ListAt(taxis, e.bidders[1]))) = 1
                      /\ Cardinality({j \in 1 .. Len(calls') : calls'[j].op = "allocateFare"}) = 1
                      /\ e.bidders[1] \notin DOMAIN fareAmountConstraint =>
                            /\ e.bidders[1] \in DOMAIN fareAmountConstraint'
                            /\ fareAmountConstraint'[e.bidders[1]] = 1]_vars

\* a tick has just given a fare to its only bidder, a taxi with no count before,
\* with no path conflict
C14_Witness ==
    /\ OwnEvent("clockTick")
    /\ \E i \in 1 .. Len(allocs) :
          /\ Len(allocs[i].bidders) = 1
          /\ ~allocs[i].conflict
          /\ allocs[i].bidders[1] \notin DOMAIN allocs[i].ledger
          /\ Entry(fareBoard, allocs[i].origin, allocs[i].destination, allocs[i].time).taxi
                = allocs[i].bidders[1]

\* an _allocateFare invocation that gave the fare to one of several bidders, all of
\* them with a count
VeteranAward(a) ==
    /\ a.winner >= 0
    /\ Cardinality(Range(a.bidders)) > 1
    /\ \A b \in Range(a.bidders) : b \in DOMAIN a.ledger

\* C15: when every bidder of an awarded fare has a count, no bidder has a smaller
\* count than the winner, and among the bidders with the winner's count none is
\* closer to the origin than the winner.
C15_VeteranFewestAwardsWins ==
    \A i \in 1 .. Len(allocs) :
        LET a == allocs[i]
        IN  VeteranAward(a) =>
                \A b \in Range(a.bidders) :
                    /\ a.ledger[a.winner] <= a.ledger[b]
                    /\ a.ledger[b] = a.ledger[a.winner] =>
                          a.toOrigin[a.winner] <= a.toOrigin[b]

\* the part of C15 the code keeps: the same, when some bidder has the least count
\* of the whole ledger
C15_VeteranFewestAwardsWinsAtMinimum ==
    \A i \in 1 .. Len(allocs) :
        LET a == allocs[i]
        IN  (/\ VeteranAward(a)
             /\ \E b \in Range(a.bidders) : \A j \in DOMAIN a.ledger : a.ledger[b] <= a.ledger[j]) =>
                \A b \in Range(a.bidders) :
                    /\ a.ledger[a.winner] <= a.ledger[b]
                    /\ a.ledger[b] = a.ledger[a.winner] =>
                          a.toOrigin[a.winner] <= a.toOrigin[b]

\* what the code does when no bidder has the least count of the whole ledger: the
\* closest bidder wins, whatever its count
C15_VeteranFallbackIsNearest ==
    \A i \in 1 .. Len(allocs) :
        LET a == allocs[i]
        IN  (/\ VeteranAward(a)
             /\ ~\E b \in Range(a.bidders) : \A j \in DOMAIN a.ledger : a.ledger[b] <= a.ledger[j]) =>
                \A b \in Range(a.bidders) : a.toOrigin[a.winner] <= a.toOrigin[b]

\* i + B < C - 1 for travel time n / TDen, in units of 1 / PriceUnit
IncrementFits(i, n) == i * PriceUnit + 10 * n < CeilingFactor * 9 * n - PriceUnit

\* the largest increment of 0 .. SampleCount - 1 that fits
LargestFit(n) ==
    CHOOSE i \in 0 .. SampleCount - 1 :
        IncrementFits(i, n) /\ \A j \in i + 1 .. SampleCount - 1 : ~IncrementFits(j, n)

\* C16: when the travel time T of a fare is positive and some increment i of
\* 0 .. 199 has i + B < C - 1, the price the tick broadcasts is i* + B for the
\* largest such i*, and is below C - 1.
C16_LargestFittingSample ==
    OwnEvent("clockTick") =>
        \A j \in 1 .. Len(calls) :
            calls[j].op = "broadcastFare" =>
                LET n == BroadcastTravelTime(calls[j])
                IN  (n > 0 /\ \E i \in 0 .. SampleCount - 1 : IncrementFits(i, n)) =>
                        /\ calls[j].arg = LargestFit(n) * PriceUnit + 10 * n
                        /\ calls[j].arg < CeilingFactor * 9 * n - PriceUnit

\* what the code does: when the largest fitting increment is not the last of the
\* range, the price is one more than i* + B, at or above C - 1 and below C
C16_OneAboveLargestFittingSample ==
    OwnEvent("clockTick") =>
        \A j \in 1 .. Len(calls) :
            calls[j].op = "broadcastFare" =>
                LET n == BroadcastTravelTime(calls[j])
                IN  (n > 0 /\ \E i \in 0 .. SampleCount - 1 : IncrementFits(i, n)) =>
                        IF LargestFit(n) = SampleCount - 1
                        THEN calls[j].arg = LargestFit(n) * PriceUnit + 10 * n
                        ELSE /\ calls[j].arg = (LargestFit(n) + 1) * PriceUnit + 10 * n
                             /\ calls[j].arg >= CeilingFactor * 9 * n - PriceUnit
                             /\ calls[j].arg < CeilingFactor * 9 * n

\* a tick has just priced a fare for which every increment of the range fits
C16_AllFit ==
    /\ OwnEvent("clockTick")
    /\ \E j \in 1 .. Len(calls) :
          /\ calls[j].op = "broadcastFare"
          /\ BroadcastTravelTime(calls[j]) > 0
          /\ IncrementFits(SampleCount - 1, BroadcastTravelTime(calls[j]))

\* the position of a key in a dict, in insertion order
DictPos(d, key) == CHOOSE i \in 1 .. Len(d) : d[i].k = key

\* the key whose bidder list the step changed, as a set (empty when none changed)
BidLandedOn ==
    {k \in BoardKeys(fareBoard) \cap BoardKeys(fareBoard') :
        Entry(fareBoard', k[1], k[2], k[3]).bidders # Entry(fareBoard, k[1], k[2], k[3]).bidders}

\* the destination bucket of k comes first, in the order the destinations entered
\* the origin bucket, among those of the open keys
FirstOpenDestination(k, open) ==
    \A k2 \in open :
        DictPos(DictGet(fareBoard, k[1]), k[2]) <= DictPos(DictGet(fareBoard, k[1]), k2[2])

\* C17: a fareBid of a known taxi at an origin with an open fare appends the taxi's
\* index to the bidder list of one open fare of that origin: the one with the
\* least call time in the first destination bucket that has an open fare.
C17_BidLandsOnOldestOpenFare ==
    [][(/\ last'.op = "fareBid"
        /\ InList(taxis, last'.taxi)
        /\ OpenKeysAt(fareBoard, last'.origin) # {}) =>
          LET open == OpenKeysAt(fareBoard, last'.origin)
          IN  \E k \in open :
                  /\ BidLandedOn = {k}
                  /\ Entry(fareBoard', k[1], k[2], k[3]).bidders =
                        Append(Entry(fareBoard, k[1], k[2], k[3]).bidders,
                               IndexOf(taxis, last'.taxi))
                  /\ FirstOpenDestination(k, open)
                  /\ \A k2 \in open : k2[2] = k[2] => k[3] <= k2[3]]_vars

\* what the code does: within the destination bucket the bid lands on the open
\* fare that entered the bucket first, whatever its call time
C17_BidLandsOnFirstRegisteredOpenFare ==
    [][(/\ last'.op = "fareBid"
        /\ InList(taxis, last'.taxi)
        /\ OpenKeysAt(fareBoard, last'.origin) # {}) =>
          LET open == OpenKeysAt(fareBoard, last'.origin)
          IN  \E k \in open :
                  /\ BidLandedOn = {k}
                  /\ Entry(fareBoard', k[1], k[2], k[3]).bidders =
                        Append(Entry(fareBoard, k[1], k[2], k[3]).bidders,
                               IndexOf(taxis, last'.taxi))
                  /\ FirstOpenDestination(k, open)
                  /\ \A k2 \in open :
                        k2[2] = k[2] =>
                           DictPos(DictGet(DictGet(fareBoard, k[1]), k[2]), k[3])
                              <= DictPos(DictGet(DictGet(fareBoard, k[1]), k[2]), k2[3])]_vars

\* the broadcastFare calls of the handler that ran last, for origin o, destination d
BroadcastCalls(cs, o, d) ==
    {j \in 1 .. Len(cs) : cs[j].op = "broadcastFare" /\ cs[j].origin = o /\ cs[j].destination = d}

\* the keys the step priced: price 0 before it, another price after it
PricedNow ==
    {k \in BoardKeys(fareBoard) \cap BoardKeys(fareBoard') :
        /\ Entry(fareBoard, k[1], k[2], k[3]).price = 0
        /\ Entry(fareBoard', k[1], k[2], k[3]).price # 0}

\* C18: for a fare that stays in the board and is not registered or handed over by
\* the step: a price once set stays as it is; only a tick sets a price, to a value
\* above 0, with one broadcastFare of that price, and the same tick leaves the
\* fare's taxi as it was; only a tick sets the taxi, and only of a fare priced
\* before that tick; a taxi once set stays; a newFare leaves its fare with price 0
\* and no taxi; and the world hears one broadcastFare for every fare the step
\* priced and no other.
C18_LifecycleMovesForward ==
    [][/\ OwnEvent("newFare")' =>
             /\ Entry(fareBoard', last'.origin, last'.destination, last'.time).price = 0
             /\ Entry(fareBoard', last'.origin, last'.destination, last'.time).taxi = -1
       /\ \A k \in BoardKeys(fareBoard) \cap BoardKeys(fareBoard') :
             LET e == Entry(fareBoard, k[1], k[2], k[3])
                 f == Entry(fareBoard', k[1], k[2], k[3])
             IN  ~Registered(k)' =>
                    /\ e.price # 0 => f.price = e.price
                    /\ k \in PricedNow =>
                          /\ OwnEvent("clockTick")'
                          /\ f.price > 0
                          /\ f.taxi = e.taxi
                          /\ \E j \in BroadcastCalls(calls', k[1], k[2]) : calls'[j].arg = f.price
                    /\ (e.taxi = -1 /\ f.taxi # -1) =>
                          /\ OwnEvent("clockTick")'
                          /\ e.price > 0
                    /\ e.taxi # -1 => f.taxi = e.taxi
       /\ \A j \in 1 .. Len(calls') :
             calls'[j].op = "broadcastFare" =>
                Cardinality(BroadcastCalls(calls', calls'[j].origin, calls'[j].destination))
                   = Cardinality({k \in PricedNow :
                                     /\ k[1] = calls'[j].origin
                                     /\ k[2] = calls'[j].destination
                                     /\ ~Registered(k)'})]_vars

\* a tick has just priced and broadcast a fare that had bidders already, and left
\* it without a taxi
C18_Witness ==
    /\ OwnEvent("clockTick")
    /\ \E k \in BoardKeys(fareBoard) :
          LET e == Entry(fareBoard, k[1], k[2], k[3])
          IN  /\ e.price > 0
              /\ e.taxi = -1
              /\ e.bidders # <<>>
              /\ \E j \in BroadcastCalls(calls, k[1], k[2]) : calls[j].arg = e.price

\* where no fare is handed over: a fare with a taxi has a price above 0
C18_AssignedIsPriced ==
    \A k \in BoardKeys(fareBoard) :
        Entry(fareBoard, k[1], k[2], k[3]).taxi # -1 => Entry(fareBoard, k[1], k[2], k[3]).price > 0

\* the fare at key k is in the board with a bidder and an origin that resolves to
\* a node
AwaitsTaxi(k) ==
    /\ HasKey(fareBoard, k[1], k[2], k[3])
    /\ Entry(fareBoard, k[1], k[2], k[3]).bidders # <<>>
    /\ GetNode(k[1]) # None

\* the fare at key k has a taxi, or has left the board, or has been registered
\* again since its bids
Settled(k) ==
    \/ ~HasKey(fareBoard, k[1], k[2], k[3])
    \/ Entry(fareBoard, k[1], k[2], k[3]).taxi # -1
    \/ Entry(fareBoard, k[1], k[2], k[3]).bidders = <<>>

\* what one tick does to the fares of the board: it prices every unpriced fare, it
\* gives a taxi to every priced fare without one that has a bidder and an origin
\* that resolves, and it leaves a priced fare with no bidder in the board without
\* a taxi
TickAdvances ==
    OwnEvent("clockTick")' =>
        \A k \in BoardKeys(fareBoard) :
            LET e == Entry(fareBoard, k[1], k[2], k[3])
            IN  /\ HasKey(fareBoard', k[1], k[2], k[3])
                /\ e.price = 0 => Entry(fareBoard', k[1], k[2], k[3]).price > 0
                /\ (e.price > 0 /\ e.taxi = -1 /\ e.bidders # <<>> /\ GetNode(k[1]) # None) =>
                      Entry(fareBoard', k[1], k[2], k[3]).taxi # -1
                /\ (e.price > 0 /\ e.taxi = -1 /\ e.bidders = <<>>) =>
                      Entry(fareBoard', k[1], k[2], k[3]).taxi = -1

\* C19: with ticks that keep occurring, every fare in the board with a bidder and
\* an origin that resolves gets a taxi, unless it is cancelled or registered again
\* first; every tick prices the unpriced fares, gives a taxi to the priced fares
\* that have a bidder, and leaves the priced fares without bidders as they are.
C19_EventuallyAssigned ==
    /\ [][TickAdvances]_vars
    /\ \A k \in LiveKeys : AwaitsTaxi(k) ~> Settled(k)

\* the liveness part of C19 alone
C19_BidLeadsToTaxi == \A k \in LiveKeys : AwaitsTaxi(k) ~> Settled(k)

\* the part of C19 the code keeps: a tick that ends without an exception does all
\* of the above, and a fare with a bidder gets a taxi unless a tick raises
C19_EventuallyAssignedUnlessRaised ==
    /\ [][raised' = "none" => TickAdvances]_vars
    /\ \A k \in LiveKeys : AwaitsTaxi(k) ~> (Settled(k) \/ raised = "TypeError")

\* the keys of origin o to which the step gave the taxi of index i
AssignedNow(o, i) == {k \in AwardedTo(i) : k[1] = o}

\* C20: a tick gives a fare only to a taxi that is in the fare's bidder list and in
\* the taxi list, and calls allocateFare for an origin and a taxi exactly once for
\* each fare of that origin it gives to that taxi, and never otherwise.
C20_WinnerIsKnownBidder ==
    [][OwnEvent("clockTick")' =>
          /\ \A k \in BoardKeys(fareBoard) \cap BoardKeys(fareBoard') :
                LET e == Entry(fareBoard, k[1], k[2], k[3])
                    f == Entry(fareBoard', k[1], k[2], k[3])
                IN  (e.taxi = -1 /\ f.taxi # -1) =>
                       /\ f.taxi \in Range(e.bidders)
                       /\ f.bidders = e.bidders
                       /\ f.taxi \in 0 .. Len(taxis) - 1
                       /\ InList(taxis', ListAt(taxis, f.taxi))
          /\ \A o \in {k[1] : k \in BoardKeys(fareBoard)}, i \in 0 .. Len(taxis) - 1 :
                Cardinality(AllocateCalls(calls', o, ListAt(taxis, i)))
                   = Cardinality(AssignedNow(o, i))
          /\ \A j \in 1 .. Len(calls') :
                calls'[j].op = "allocateFare" =>
                   /\ InList(taxis, calls'[j].arg)
                   /\ \E k \in BoardKeys(fareBoard) : k[1] = calls'[j].origin]_vars

\* a tick has just given a fare to one of several bidders while a known taxi had
\* not bid
C20_Witness ==
    /\ OwnEvent("clockTick")
    /\ \E i \in 1 .. Len(allocs) :
          /\ allocs[i].winner >= 0
          /\ Cardinality(Range(allocs[i].bidders)) > 1
          /\ \E x \in 0 .. Len(taxis) - 1 : x \notin Range(allocs[i].bidders)
          /\ Entry(fareBoard, allocs[i].origin, allocs[i].destination, allocs[i].time).taxi
                = allocs[i].winner

====
